---- MODULE Spec2Model ----
(***************************************************************************)
(* Transaction engine of BancoDemoApp/Backend (Django REST framework).     *)
(*                                                                         *)
(* A request is served by a worker in the order DRF's CreateAPIView runs   *)
(* it: permission check, serializer.is_valid() (TransaccionSerializer.     *)
(* validate, which loads the source account OUTSIDE any database           *)
(* transaction), perform_create, and serializer.save() which runs          *)
(* TransaccionSerializer.create inside @db_transaction.atomic.  The        *)
(* database is modelled as a store with committed rows; the writes of an   *)
(* open atomic block are buffered in the request (wbuf), are invisible to  *)
(* other requests until Commit, and hold the row against other writers.    *)
(* Money amounts are integers (units of the smallest amount used).         *)
(***************************************************************************)
EXTENDS Integers, Sequences, FiniteSets, TLC

VARIABLES
    usuarios,       \* table usuario: id -> row
    cuentas,        \* table cuenta: id_cuenta -> row
    transacciones,  \* table transaccion: sequence of rows, id = position
    logs,           \* table log: sequence of rows
    req,            \* per worker: the request it is serving and its locals
    respuesta       \* the response sent last: its HTTP status (0: none yet)

vars == <<usuarios, cuentas, transacciones, logs, req, respuesta>>

(***************************** bounds **************************************)
MaxTx == 3          \* transactions in the store plus requests in flight
MaxCantidad == 1    \* largest amount a request carries
MaxCuentas == 4     \* accounts in the store plus accounts being opened
MaxUsuarios == 4    \* users in the store

(***************************** universe ************************************)
Workers == {"w1", "w2"}
Rank == [w1 |-> 1, w2 |-> 2]

NoUser == "nadie"
NoCuenta == 0
Ninguno == "ninguno"        \* an optional request field that is absent

\* the users registered when the behaviours start
Usuarios ==
    [ cli1 |-> [tipo |-> "Cliente",  correo_electronico |-> "cli1@x"],
      cli2 |-> [tipo |-> "Cliente",  correo_electronico |-> "cli2@x"],
      op   |-> [tipo |-> "Operador", correo_electronico |-> "op@x"] ]

UserIds == DOMAIN Usuarios

Endpoints == {"crear_transaccion", "transferencia"}
Tipos == {"Deposito", "Retiro", "Transferencia", "Otro"}
Cantidades == 0 .. MaxCantidad
CuentaIds == {1, 2, 3}                       \* 3 is the id of no account
Correos == {Ninguno, "cli1@x", "cli2@x"}
Numeros == {Ninguno, "n1", "n2", "n9"}       \* n9 is the number of no account

\* an in-memory Cuenta instance no variable refers to
NoObj == [id |-> NoCuenta, numero_cuenta |-> Ninguno, saldo |-> 0]

\* no transaccion_data dict built yet
NoData ==
    [ tipo |-> Ninguno, cantidad |-> 0, id_cuenta |-> NoCuenta, estado |-> Ninguno,
      id_operador |-> NoUser, id_cuenta_destino |-> NoCuenta ]

\* request.data of a call that sends no field
CuerpoVacio ==
    [ tipo |-> Ninguno, cantidad |-> 0, id_cuenta_id |-> NoCuenta, correo_cliente |-> Ninguno ]

\* a worker serving no request.  pc is the worker's position, wbuf the
\* uncommitted row writes of its open atomic block.
Idle ==
    [ pc |-> "idle", endpoint |-> Ninguno, user |-> NoUser, tipo |-> Ninguno,
      cantidad |-> 0, correo_cliente |-> Ninguno,
      numero_cuenta_destino |-> Ninguno, estado |-> Ninguno,
      cuenta_origen |-> NoObj, cuenta_destino |-> NoObj,
      transaccion_data |-> NoData, saves |-> << >>, wbuf |-> << >>,
      pk |-> 0, transaccion |-> NoData, cuerpo |-> CuerpoVacio,
      intentos |-> 0, numero |-> Ninguno, cliente |-> NoUser ]

\* The store the behaviours start from, as the tests set it up: the two
\* customers hold one account each, opened with saldo 0, and the operator
\* has made one deposit of 1 into the first ("Asegurar saldo previo"), which
\* left its transaction and its audit entry.
CuentasIniciales ==
    ( 1 :> [numero_cuenta |-> "n1", tipo |-> "Ahorros", saldo |-> 1,
            estado |-> "Activa", id_usuario |-> "cli1"]
   @@ 2 :> [numero_cuenta |-> "n2", tipo |-> "Ahorros", saldo |-> 0,
            estado |-> "Activa", id_usuario |-> "cli2"] )

DepositoInicial ==
    [ tipo |-> "Deposito", cantidad |-> 1, id_cuenta |-> 1, estado |-> "Completada",
      id_operador |-> "op", id_cuenta_destino |-> NoCuenta ]

LogInicial ==
    [ id_usuario |-> "op", accion |-> "Deposito", cantidad |-> 1,
      numero_cuenta |-> "n1", estado |-> "Completada" ]

Init ==
    /\ usuarios = Usuarios
    /\ cuentas = CuentasIniciales
    /\ transacciones = << DepositoInicial >>
    /\ logs = << LogInicial >>
    /\ req = [w \in Workers |-> Idle]
    /\ respuesta = [status |-> 0]

(***************************** permissions *********************************)
\* EsOperador.has_permission; every user of the model is authenticated
EsOperador(user) == usuarios[user].tipo = "Operador"

\* permission_classes of the two views that create transactions
has_permission(endpoint, user) ==
    IF endpoint = "crear_transaccion" THEN EsOperador(user) ELSE TRUE

(***************************** validate ************************************)
\* Each _validate_* returns the message of the ValidationError it raises,
\* or Ninguno when it returns normally.

_get_cuenta_origen(cuenta_id) ==
    IF cuenta_id \in DOMAIN cuentas THEN Ninguno ELSE "La cuenta de origen no existe."

\* variant: zero passes, only a negative amount is refused
_validate_cantidad_negativa(cantidad) ==
    IF cantidad < 0 THEN "La cantidad debe ser mayor a cero." ELSE Ninguno

_validate_cantidad(cantidad) ==
    IF cantidad <= 0 THEN "La cantidad debe ser mayor a cero." ELSE Ninguno

\* variant: the role of the caller is not tested
_validate_operador_sin_rol(user, correo, cuenta_id) ==
    IF correo = Ninguno
    THEN "Debe especificar el correo del cliente."
    ELSE IF usuarios[cuentas[cuenta_id].id_usuario].correo_electronico # correo
    THEN "La cuenta no pertenece al cliente especificado."
    ELSE Ninguno

_validate_operador(user, correo, cuenta_id) ==
    IF usuarios[user].tipo # "Operador"
    THEN "Solo operadores pueden realizar depositos o retiros."
    ELSE IF correo = Ninguno
    THEN "Debe especificar el correo del cliente."
    ELSE IF usuarios[cuentas[cuenta_id].id_usuario].correo_electronico # correo
    THEN "La cuenta no pertenece al cliente especificado."
    ELSE Ninguno

\* variant: the owner of the source account is not tested
_validate_transferencia_sin_dueno(user, cuenta_id) ==
    IF usuarios[user].tipo # "Cliente"
    THEN "Solo clientes pueden realizar transferencias."
    ELSE Ninguno

_validate_transferencia(user, cuenta_id) ==
    IF usuarios[user].tipo # "Cliente"
    THEN "Solo clientes pueden realizar transferencias."
    ELSE IF cuentas[cuenta_id].id_usuario # user
    THEN "La cuenta no le pertenece al usuario autenticado."
    ELSE Ninguno

\* attrs['estado'] set by _validate_transferencia
estado_transferencia(cantidad, saldo) ==
    IF cantidad > saldo THEN "Cancelada" ELSE "Pendiente"

_validate_tipo_transaccion(user, tipo, correo, cuenta_id) ==
    IF tipo \in {"Deposito", "Retiro"}
    THEN _validate_operador(user, correo, cuenta_id)
    ELSE IF tipo = "Transferencia"
    THEN _validate_transferencia(user, cuenta_id)
    ELSE "Tipo de transaccion no valido."

\* variant: a withdrawal above the balance read is refused as a ValidationError
validate_saldo(user, tipo, cantidad, cuenta_id, correo) ==
    IF _get_cuenta_origen(cuenta_id) # Ninguno THEN _get_cuenta_origen(cuenta_id)
    ELSE IF _validate_cantidad(cantidad) # Ninguno THEN _validate_cantidad(cantidad)
    ELSE IF tipo = "Retiro" /\ cantidad > cuentas[cuenta_id].saldo THEN "Saldo insuficiente."
    ELSE _validate_tipo_transaccion(user, tipo, correo, cuenta_id)

\* TransaccionSerializer.validate: the error raised, or Ninguno
validate(user, tipo, cantidad, cuenta_id, correo) ==
    IF _get_cuenta_origen(cuenta_id) # Ninguno THEN _get_cuenta_origen(cuenta_id)
    ELSE IF _validate_cantidad(cantidad) # Ninguno THEN _validate_cantidad(cantidad)
    ELSE _validate_tipo_transaccion(user, tipo, correo, cuenta_id)

(***************************** create **************************************)
_build_base_transaccion_data(tipo, cantidad, cuenta_origen, estado) ==
    [ tipo |-> tipo, cantidad |-> cantidad, id_cuenta |-> cuenta_origen.id,
      estado |-> estado, id_operador |-> NoUser, id_cuenta_destino |-> NoCuenta ]

\* Cuenta.objects.get(numero_cuenta=num_destino): the ids of the committed
\* rows with that number (numero_cuenta is unique: at most one)
CuentasConNumero(num) == {c \in DOMAIN cuentas : cuentas[c].numero_cuenta = num}

CargarCuenta(c) ==
    [id |-> c, numero_cuenta |-> cuentas[c].numero_cuenta, saldo |-> cuentas[c].saldo]

\* The three _procesar_* return the estado, the two in-memory Cuenta
\* instances as they leave them, the save() calls they issue in order, and
\* the transaccion_data they fill in.
\* variant: the balance check of the transfer is missing
_procesar_transferencia_sin_saldo(num_destino, cuenta_origen, cantidad, data) ==
    IF CuentasConNumero(num_destino) = {}
    THEN [ estado |-> "Cancelada", origen |-> cuenta_origen, destino |-> NoObj,
           saves |-> << >>, data |-> data ]
    ELSE LET cuenta_destino == CargarCuenta(CHOOSE c \in CuentasConNumero(num_destino) : TRUE)
         IN  [ estado |-> "Completada",
               origen |-> [cuenta_origen EXCEPT !.saldo = @ - cantidad],
               destino |-> [cuenta_destino EXCEPT !.saldo = @ + cantidad],
               saves |-> <<"origen", "destino">>,
               data |-> [data EXCEPT !.id_cuenta_destino = cuenta_destino.id] ]

\* variant: the source is debited and saved before the destination is looked up
_procesar_transferencia_debita_antes(num_destino, cuenta_origen, cantidad, data) ==
    IF CuentasConNumero(num_destino) = {}
    THEN [ estado |-> "Cancelada",
           origen |-> [cuenta_origen EXCEPT !.saldo = @ - cantidad],
           destino |-> NoObj, saves |-> <<"origen">>, data |-> data ]
    ELSE LET cuenta_destino == CargarCuenta(CHOOSE c \in CuentasConNumero(num_destino) : TRUE)
         IN  IF cantidad <= cuenta_origen.saldo
             THEN [ estado |-> "Completada",
                    origen |-> [cuenta_origen EXCEPT !.saldo = @ - cantidad],
                    destino |-> [cuenta_destino EXCEPT !.saldo = @ + cantidad],
                    saves |-> <<"origen", "destino">>,
                    data |-> [data EXCEPT !.id_cuenta_destino = cuenta_destino.id] ]
             ELSE [ estado |-> "Cancelada", origen |-> cuenta_origen,
                    destino |-> cuenta_destino, saves |-> << >>, data |-> data ]

\* variant: a transfer to a missing destination keeps the state validate gave it
_procesar_transferencia_pendiente(num_destino, cuenta_origen, cantidad, data) ==
    IF CuentasConNumero(num_destino) = {}
    THEN [ estado |-> data.estado, origen |-> cuenta_origen, destino |-> NoObj,
           saves |-> << >>, data |-> data ]
    ELSE LET cuenta_destino == CargarCuenta(CHOOSE c \in CuentasConNumero(num_destino) : TRUE)
         IN  IF cantidad <= cuenta_origen.saldo
             THEN [ estado |-> "Completada",
                    origen |-> [cuenta_origen EXCEPT !.saldo = @ - cantidad],
                    destino |-> [cuenta_destino EXCEPT !.saldo = @ + cantidad],
                    saves |-> <<"origen", "destino">>,
                    data |-> [data EXCEPT !.id_cuenta_destino = cuenta_destino.id] ]
             ELSE [ estado |-> "Cancelada", origen |-> cuenta_origen,
                    destino |-> cuenta_destino, saves |-> << >>, data |-> data ]

\* variant: the destination is recorded as soon as it is found
_procesar_transferencia_destino_antes(num_destino, cuenta_origen, cantidad, data) ==
    IF CuentasConNumero(num_destino) = {}
    THEN [ estado |-> "Cancelada", origen |-> cuenta_origen, destino |-> NoObj,
           saves |-> << >>, data |-> data ]
    ELSE LET cuenta_destino == CargarCuenta(CHOOSE c \in CuentasConNumero(num_destino) : TRUE)
         IN  IF cantidad <= cuenta_origen.saldo
             THEN [ estado |-> "Completada",
                    origen |-> [cuenta_origen EXCEPT !.saldo = @ - cantidad],
                    destino |-> [cuenta_destino EXCEPT !.saldo = @ + cantidad],
                    saves |-> <<"origen", "destino">>,
                    data |-> [data EXCEPT !.id_cuenta_destino = cuenta_destino.id] ]
             ELSE [ estado |-> "Cancelada", origen |-> cuenta_origen,
                    destino |-> cuenta_destino, saves |-> << >>,
                    data |-> [data EXCEPT !.id_cuenta_destino = cuenta_destino.id] ]

_procesar_transferencia(num_destino, cuenta_origen, cantidad, data) ==
    IF CuentasConNumero(num_destino) = {}
    THEN [ estado |-> "Cancelada", origen |-> cuenta_origen, destino |-> NoObj,
           saves |-> << >>, data |-> data ]
    ELSE LET cuenta_destino == CargarCuenta(CHOOSE c \in CuentasConNumero(num_destino) : TRUE)
         IN  IF cantidad <= cuenta_origen.saldo
             THEN [ estado |-> "Completada",
                    origen |-> [cuenta_origen EXCEPT !.saldo = @ - cantidad],
                    destino |-> [cuenta_destino EXCEPT !.saldo = @ + cantidad],
                    saves |-> <<"origen", "destino">>,
                    data |-> [data EXCEPT !.id_cuenta_destino = cuenta_destino.id] ]
             ELSE [ estado |-> "Cancelada", origen |-> cuenta_origen,
                    destino |-> cuenta_destino, saves |-> << >>, data |-> data ]

\* variant: the operator is not recorded on the transaction
_procesar_deposito_sin_operador(cuenta_origen, cantidad, user, data) ==
    [ estado |-> "Completada",
      origen |-> [cuenta_origen EXCEPT !.saldo = @ + cantidad],
      destino |-> NoObj, saves |-> <<"origen">>, data |-> data ]

_procesar_deposito(cuenta_origen, cantidad, user, data) ==
    [ estado |-> "Completada",
      origen |-> [cuenta_origen EXCEPT !.saldo = @ + cantidad],
      destino |-> NoObj, saves |-> <<"origen">>,
      data |-> [data EXCEPT !.id_operador = user] ]

\* variant: the balance check of the withdrawal is missing
_procesar_retiro_sin_saldo(cuenta_origen, cantidad, user, data) ==
    [ estado |-> "Completada",
      origen |-> [cuenta_origen EXCEPT !.saldo = @ - cantidad],
      destino |-> NoObj, saves |-> <<"origen">>,
      data |-> [data EXCEPT !.id_operador = user] ]

\* variant: > in place of >=, a withdrawal of the whole balance is cancelled
_procesar_retiro_estricto(cuenta_origen, cantidad, user, data) ==
    IF cuenta_origen.saldo > cantidad
    THEN [ estado |-> "Completada",
           origen |-> [cuenta_origen EXCEPT !.saldo = @ - cantidad],
           destino |-> NoObj, saves |-> <<"origen">>,
           data |-> [data EXCEPT !.id_operador = user] ]
    ELSE [ estado |-> "Cancelada", origen |-> cuenta_origen, destino |-> NoObj,
           saves |-> << >>, data |-> [data EXCEPT !.id_operador = user] ]

_procesar_retiro(cuenta_origen, cantidad, user, data) ==
    IF cuenta_origen.saldo >= cantidad
    THEN [ estado |-> "Completada",
           origen |-> [cuenta_origen EXCEPT !.saldo = @ - cantidad],
           destino |-> NoObj, saves |-> <<"origen">>,
           data |-> [data EXCEPT !.id_operador = user] ]
    ELSE [ estado |-> "Cancelada", origen |-> cuenta_origen, destino |-> NoObj,
           saves |-> << >>, data |-> [data EXCEPT !.id_operador = user] ]

\* variant: the entry is written with the status the request started with
_crear_log_estado_inicial(user, tipo, cantidad, cuenta_origen, estado) ==
    [ id_usuario |-> user, accion |-> tipo, cantidad |-> cantidad,
      numero_cuenta |-> cuenta_origen.numero_cuenta, estado |-> "Pendiente" ]

\* the Log row; descripcion is kept as the values the f-string interpolates
_crear_log(user, tipo, cantidad, cuenta_origen, estado) ==
    [ id_usuario |-> user, accion |-> tipo, cantidad |-> cantidad,
      numero_cuenta |-> cuenta_origen.numero_cuenta, estado |-> estado ]

\* TransferenciaView.perform_create raises before serializer.save()
perform_create_error(endpoint, user) ==
    IF endpoint = "transferencia" /\ usuarios[user].tipo # "Cliente"
    THEN "Solo los clientes pueden realizar transferencias."
    ELSE Ninguno

(***************************** actions *************************************)
InCreate == {"save_origen", "save_destino", "insertar"}
InFlight == {"validated"} \cup InCreate

Accepted == Len(transacciones) + Cardinality({w \in Workers : req[w].pc \in InFlight})

\* a request is handed to the first worker that is free
FirstFree == CHOOSE w \in Workers : req[w].pc = "idle" /\ \A v \in Workers : req[v].pc = "idle" => Rank[w] <= Rank[v]

\* the worker sends its response and is free for the next request: 201 for
\* a created transaction, 400 for a ValidationError, 403 for a refused
\* permission, 500 for any other exception
Respond(w, status) ==
    /\ req' = [req EXCEPT ![w] = Idle]
    /\ respuesta' = [status |-> status]

\* result of the _procesar_* branch create takes
Procesar(r) ==
    LET estado == IF r.estado = Ninguno THEN "Pendiente" ELSE r.estado
        data == _build_base_transaccion_data(r.tipo, r.cantidad, r.cuenta_origen, estado)
    IN  IF r.tipo = "Transferencia"
        THEN _procesar_transferencia(r.numero_cuenta_destino, r.cuenta_origen, r.cantidad, data)
        ELSE IF r.tipo = "Deposito"
        THEN _procesar_deposito(r.cuenta_origen, r.cantidad, r.user, data)
        ELSE _procesar_retiro(r.cuenta_origen, r.cantidad, r.user, data)

\* create up to its first save(): the atomic block opens and the _procesar_*
\* branch leaves its result in the worker's locals
EnterCreate(r) ==
    LET p == Procesar(r)
    IN  [ r EXCEPT
          !.pc = IF p.saves = << >> THEN "insertar" ELSE "save_origen",
          !.cuenta_origen = p.origen, !.cuenta_destino = p.destino,
          !.saves = p.saves,
          !.transaccion_data = [p.data EXCEPT !.estado = p.estado] ]

\* validated_data as validate returns it, with the fields create reads:
\* correo_cliente for Deposito/Retiro, numero_cuenta_destino for
\* Transferencia
Validated(endpoint, user, tipo, cantidad, cuenta_id, correo, num_destino) ==
    [ Idle EXCEPT
      !.pc = "validated", !.endpoint = endpoint, !.user = user,
      !.tipo = tipo, !.cantidad = cantidad,
      !.correo_cliente = correo,
      !.numero_cuenta_destino = num_destino,
      !.cuenta_origen = CargarCuenta(cuenta_id),
      !.estado =
          IF tipo = "Transferencia"
          THEN estado_transferencia(cantidad, cuentas[cuenta_id].saldo)
          ELSE Ninguno ]

\* A request validate accepts.  Between the read of the source account in
\* validate and the next access to the database the worker only computes on
\* its locals, so the step runs up to that access: perform_create's check,
\* and for Deposito/Retiro create up to cuenta_origen.save().  A
\* Transferencia stops before create, which reads the destination account.
Accept(w, tope, endpoint, user, tipo, cantidad, cuenta_id, correo, num_destino) ==
    IF perform_create_error(endpoint, user) # Ninguno
    THEN Respond(w, 400)
    ELSE /\ Accepted < tope
         /\ UNCHANGED respuesta
         /\ LET r == Validated(endpoint, user, tipo, cantidad, cuenta_id, correo, num_destino)
            IN  req' = [req EXCEPT ![w] =
                          IF tipo = "Transferencia" THEN r ELSE EnterCreate(r)]

\* The view's permission check, then serializer.is_valid(): field parsing and
\* TransaccionSerializer.validate.  The request's fields are drawn from the
\* whole input space.  Every refused request has the same effect, and so has
\* every invalid one; an accepted request passes the checks in the order
\* validate makes them, and a field is drawn only where the code reads it.
Refused == \E endpoint \in Endpoints, user \in UserIds : ~has_permission(endpoint, user)

Invalid ==
    \E endpoint \in Endpoints, user \in UserIds, cuenta_id \in CuentaIds,
       cantidad \in Cantidades, tipo \in Tipos, correo \in Correos :
        /\ has_permission(endpoint, user)
        /\ validate(user, tipo, cantidad, cuenta_id, correo) # Ninguno

ValidateHasta(w, tope) ==
    /\ req[w].pc = "idle"
    /\ w = FirstFree
    /\ \/ IF Refused THEN Respond(w, 403) ELSE FALSE
       \/ IF Invalid THEN Respond(w, 400) ELSE FALSE
       \/ \E endpoint \in Endpoints, user \in UserIds :
             /\ has_permission(endpoint, user)
             /\ perform_create_error(endpoint, user) # Ninguno \/ Accepted < tope
             /\ \E cuenta_id \in CuentaIds, cantidad \in Cantidades :
                  /\ _get_cuenta_origen(cuenta_id) = Ninguno
                  /\ _validate_cantidad(cantidad) = Ninguno
                  /\ \E tipo \in Tipos :
                       \E correo \in IF tipo \in {"Deposito", "Retiro"} THEN Correos ELSE {Ninguno},
                          num_destino \in IF tipo = "Transferencia" THEN Numeros ELSE {Ninguno} :
                          /\ validate(user, tipo, cantidad, cuenta_id, correo) = Ninguno
                          /\ Accept(w, tope, endpoint, user, tipo, cantidad, cuenta_id, correo, num_destino)
    /\ UNCHANGED <<usuarios, cuentas, transacciones, logs>>

\* the model stops accepting requests once the store and the requests in
\* flight hold MaxTx transactions
Validate(w) == ValidateHasta(w, MaxTx)

\* create of a Transferencia up to its first save(): the destination account
\* is read inside the atomic block
PerformCreate(w) ==
    /\ req[w].pc = "validated"
    /\ req' = [req EXCEPT ![w] = EnterCreate(req[w])]
    /\ UNCHANGED <<usuarios, cuentas, transacciones, logs, respuesta>>

\* a row written in the open atomic block of another worker
LockedByOther(w, c) == \E v \in Workers \ {w} : c \in DOMAIN req[v].wbuf

\* cuenta_origen.save(): UPDATE of the source row with the instance's saldo
SaveOrigen(w) ==
    /\ req[w].pc = "save_origen"
    /\ ~LockedByOther(w, req[w].cuenta_origen.id)
    /\ req' = [req EXCEPT ![w] =
           [ req[w] EXCEPT
             !.pc = IF Len(req[w].saves) > 1 THEN "save_destino" ELSE "insertar",
             !.saves = Tail(@),
             !.wbuf = (req[w].cuenta_origen.id :> req[w].cuenta_origen.saldo) @@ @ ]]
    /\ UNCHANGED <<usuarios, cuentas, transacciones, logs, respuesta>>

\* cuenta_destino.save(): UPDATE of the destination row
SaveDestino(w) ==
    /\ req[w].pc = "save_destino"
    /\ ~LockedByOther(w, req[w].cuenta_destino.id)
    /\ req' = [req EXCEPT ![w] =
           [ req[w] EXCEPT
             !.pc = "insertar", !.saves = Tail(@),
             !.wbuf = (req[w].cuenta_destino.id :> req[w].cuenta_destino.saldo) @@ @ ]]
    /\ UNCHANGED <<usuarios, cuentas, transacciones, logs, respuesta>>

\* Transaccion.objects.create, _crear_log, and the atomic block commits:
\* the buffered writes and the two inserts become visible together
Commit(w) ==
    /\ req[w].pc = "insertar"
    /\ cuentas' = [c \in DOMAIN cuentas |->
                     IF c \in DOMAIN req[w].wbuf
                     THEN [cuentas[c] EXCEPT !.saldo = req[w].wbuf[c]]
                     ELSE cuentas[c]]
    /\ transacciones' = Append(transacciones, req[w].transaccion_data)
    /\ logs' = Append(logs, _crear_log(req[w].user, req[w].tipo, req[w].cantidad,
                                       req[w].cuenta_origen, req[w].transaccion_data.estado))
    /\ Respond(w, 201)
    /\ UNCHANGED usuarios

\* a store failure inside the atomic block (connection lost, the database
\* choosing this block as a deadlock victim): everything it wrote is rolled
\* back and the caller gets a server error
Abort(w) ==
    /\ req[w].pc \in InCreate
    /\ Respond(w, 500)
    /\ UNCHANGED <<usuarios, cuentas, transacciones, logs>>

Step(w) ==
    \/ Validate(w)
    \/ PerformCreate(w)
    \/ SaveOrigen(w)
    \/ SaveDestino(w)
    \/ Commit(w)
    \/ Abort(w)

Next == \E w \in Workers : Step(w)

Spec == Init /\ [][Next]_vars

\* one request at a time: a worker moves only while every other is at rest
Alone(w) == \A v \in Workers \ {w} : req[v].pc = "idle"

SeqNext == \E w \in Workers : Alone(w) /\ Step(w)

SeqSpec == Init /\ [][SeqNext]_vars

(***************************** crossing transfers **************************)
\* Both customers hold money: the operator has made a deposit of 1 into each
\* account.
CuentasCruce == [c \in DOMAIN CuentasIniciales |-> [CuentasIniciales[c] EXCEPT !.saldo = 1]]

DepositosCruce ==
    << DepositoInicial, [DepositoInicial EXCEPT !.id_cuenta = 2] >>

LogsCruce ==
    << LogInicial, [LogInicial EXCEPT !.numero_cuenta = "n2"] >>

InitCruce ==
    /\ usuarios = Usuarios
    /\ cuentas = CuentasCruce
    /\ transacciones = DepositosCruce
    /\ logs = LogsCruce
    /\ req = [w \in Workers |-> Idle]
    /\ respuesta = [status |-> 0]

\* the requests of Spec; two more than the two deposits are accepted
CruceStep(w) ==
    \/ ValidateHasta(w, MaxTx + 1)
    \/ PerformCreate(w)
    \/ SaveOrigen(w)
    \/ SaveDestino(w)
    \/ Commit(w)
    \/ Abort(w)

CruceNext == \E w \in Workers : CruceStep(w)

CruceSpec == InitCruce /\ [][CruceNext]_vars

(***************************** cancellation ********************************)
\* request bodies of a cancel call: none, or the fields of a transaction
\* (a deposit into the second account, or a transfer from it, of nothing or
\* of the largest amount)
Cuerpos ==
    {CuerpoVacio} \cup
    [ tipo : {"Deposito", "Transferencia"}, cantidad : {0, MaxCantidad},
      id_cuenta_id : {2}, correo_cliente : {"cli2@x"} ]

\* serializer.is_valid() of UpdateModelMixin.update on a PUT: the required
\* fields (tipo, cantidad, id_cuenta_id), then TransaccionSerializer.validate
errores_update(user, cuerpo) ==
    IF cuerpo = CuerpoVacio
    THEN "Este campo es requerido."
    ELSE validate(user, cuerpo.tipo, cuerpo.cantidad, cuerpo.id_cuenta_id, cuerpo.correo_cliente)

\* variant: the state is taken from validated_data with the default create
\* uses, validated_data.get('estado', 'Pendiente')
update_con_estado(instance, cuerpo) ==
    [ instance EXCEPT
      !.tipo = cuerpo.tipo, !.cantidad = cuerpo.cantidad,
      !.id_cuenta = cuerpo.id_cuenta_id,
      !.estado = IF cuerpo.tipo = "Transferencia"
                 THEN estado_transferencia(cuerpo.cantidad, cuentas[cuerpo.id_cuenta_id].saldo)
                 ELSE "Pendiente" ]

\* ModelSerializer.update: every entry of validated_data is set on the
\* instance; validate adds estado to validated_data for a Transferencia only
update(instance, cuerpo) ==
    [ instance EXCEPT
      !.tipo = cuerpo.tipo, !.cantidad = cuerpo.cantidad,
      !.id_cuenta = cuerpo.id_cuenta_id,
      !.estado = IF cuerpo.tipo = "Transferencia"
                 THEN estado_transferencia(cuerpo.cantidad, cuentas[cuerpo.id_cuenta_id].saldo)
                 ELSE @ ]

\* the Log row of a cancellation; descripcion is kept as the id it names
_log_cancelacion(user, pk) ==
    [ id_usuario |-> user, accion |-> "Cancelacion de transaccion", id_transaccion |-> pk ]

\* variant: the state of the transaction is not looked at
cancelable_siempre(transaccion) == TRUE

\* CancelarTransaccionView.update: the test on the state of the transaction
cancelable(transaccion) == transaccion.estado = "Pendiente"

\* CancelarTransaccionView: the permission check and get_object().  The view
\* opens no atomic block, so each statement that follows is committed on its
\* own.
Cancelar(w) ==
    /\ req[w].pc = "idle"
    /\ w = FirstFree
    /\ \E user \in UserIds, pk \in 1 .. Len(transacciones) + 1 :
          IF ~EsOperador(user) THEN Respond(w, 403)
          ELSE IF pk \notin DOMAIN transacciones THEN Respond(w, 404)
          ELSE /\ \E cuerpo \in Cuerpos :
                    req' = [req EXCEPT ![w] =
                              [ Idle EXCEPT
                                !.pc = "cancel_get", !.endpoint = "cancelar_transaccion",
                                !.user = user, !.pk = pk, !.cuerpo = cuerpo,
                                !.transaccion = transacciones[pk] ]]
               /\ UNCHANGED respuesta
    /\ UNCHANGED <<usuarios, cuentas, transacciones, logs>>

\* the test on the state, then transaccion.estado = 'Cancelada' and
\* transaccion.save(): UPDATE of the row with the fields of the instance
CancelSave(w) ==
    /\ req[w].pc = "cancel_get"
    /\ IF ~cancelable(req[w].transaccion)
       THEN Respond(w, 400) /\ UNCHANGED transacciones
       ELSE /\ transacciones' = [transacciones EXCEPT ![req[w].pk] =
                                   [req[w].transaccion EXCEPT !.estado = "Cancelada"]]
            /\ req' = [req EXCEPT ![w].pc = "cancel_log"]
            /\ UNCHANGED respuesta
    /\ UNCHANGED <<usuarios, cuentas, logs>>

\* Log.objects.create
CancelLog(w) ==
    /\ req[w].pc = "cancel_log"
    /\ logs' = Append(logs, _log_cancelacion(req[w].user, req[w].pk))
    /\ req' = [req EXCEPT ![w].pc = "cancel_update"]
    /\ UNCHANGED <<usuarios, cuentas, transacciones, respuesta>>

\* return super().update(request, ...): UpdateModelMixin.update reads the
\* row again, validates request.data with TransaccionSerializer and, when it
\* is valid, saves the instance with the validated fields
CancelUpdate(w) ==
    /\ req[w].pc = "cancel_update"
    /\ IF errores_update(req[w].user, req[w].cuerpo) # Ninguno
       THEN Respond(w, 400) /\ UNCHANGED transacciones
       ELSE /\ transacciones' = [transacciones EXCEPT ![req[w].pk] = update(@, req[w].cuerpo)]
            /\ Respond(w, 200)
    /\ UNCHANGED <<usuarios, cuentas, logs>>

CancelStep(w) ==
    \/ Cancelar(w)
    \/ CancelSave(w)
    \/ CancelLog(w)
    \/ CancelUpdate(w)

\* A transaction waiting for settlement.  No endpoint of the program writes
\* one; the tables are those of an existing database (the models map its
\* columns), where the row is found.
TransferenciaPendiente ==
    [ tipo |-> "Transferencia", cantidad |-> 1, id_cuenta |-> 1, estado |-> "Pendiente",
      id_operador |-> NoUser, id_cuenta_destino |-> NoCuenta ]

InitCancel ==
    /\ usuarios = Usuarios
    /\ cuentas = CuentasIniciales
    /\ transacciones = << DepositoInicial, TransferenciaPendiente >>
    /\ logs = << LogInicial >>
    /\ req = [w \in Workers |-> Idle]
    /\ respuesta = [status |-> 0]

\* deposits, withdrawals, transfers and cancellations, one request at a time
CancelNext == \E w \in Workers : Alone(w) /\ (Step(w) \/ CancelStep(w))

CancelSpec == InitCancel /\ [][CancelNext]_vars

(***************************** account opening *****************************)
\* range(10) of both generators
MaxIntentos == 10

\* the numbers random draws produce: two are taken when the behaviours start
Generables == {"n1", "n2", "n8", "n9"}

\* ids the store gives to new users, in order
IdsUsuario == <<"op", "cli1", "cli2", "u4", "u5", "u6">>

\* request fields of a registration and of an account creation
CorreosRegistro == {"cli1@x", "u@x"}
TiposUsuario == {"Cliente", "Operador"}
CorreosCuenta == {"cli1@x", "u@x", "op@x", "nadie@x"}
TiposCuenta == {"Ahorros", "Corriente", "Otro"}

\* Cuenta.objects.filter(numero_cuenta=numero).exists()
existe(numero) == \E c \in DOMAIN cuentas : cuentas[c].numero_cuenta = numero

\* One pass of the loop of a generator, after `intentos` colliding draws:
\* the candidate is returned, the loop goes on, or the budget is spent and
\* ValidationError is raised.
\* variant: the candidate is returned without the query
_generate_unique_numero_cuenta_sin_consulta(numero, intentos) == "return"

\* UsuarioSerializer._generate_unique_numero_cuenta
_generate_unique_numero_cuenta(numero, intentos) ==
    IF ~existe(numero) THEN "return"
    ELSE IF intentos + 1 < MaxIntentos THEN "retry"
    ELSE "raise"

\* variant: the loop has no budget
generate_unique_numero_cuenta_sin_limite(numero, intentos) ==
    IF ~existe(numero) THEN "return" ELSE "retry"

\* CuentaSerializer.generate_unique_numero_cuenta
generate_unique_numero_cuenta(numero, intentos) ==
    IF ~existe(numero) THEN "return"
    ELSE IF intentos + 1 < MaxIntentos THEN "retry"
    ELSE "raise"

\* Usuario.objects.get(correo_electronico=correo_cliente, tipo='Cliente')
Clientes(correo) ==
    {u \in DOMAIN usuarios :
        usuarios[u].correo_electronico = correo /\ usuarios[u].tipo = "Cliente"}

\* the row either create inserts
NuevaCuenta(numero, tipo, usuario) ==
    [ numero_cuenta |-> numero, tipo |-> tipo, saldo |-> 0,
      estado |-> "Activa", id_usuario |-> usuario ]

\* variant: the audit entry names the customer as the actor
_log_creacion_cliente(operador, tipo, cliente) ==
    [ id_usuario |-> cliente, accion |-> "Creacion de cuenta", tipo |-> tipo, cliente |-> cliente ]

\* the Log row of CuentaSerializer.create; descripcion is kept as the
\* values the f-string interpolates
_log_creacion(operador, tipo, cliente) ==
    [ id_usuario |-> operador, accion |-> "Creacion de cuenta", tipo |-> tipo, cliente |-> cliente ]

Abriendo == {"generar", "insertar_cuenta"}

Abiertas == Cardinality(DOMAIN cuentas) + Cardinality({w \in Workers : req[w].pc \in Abriendo})

\* UsuarioCreateView (no permission) and UsuarioSerializer.create up to the
\* first draw: the unique email is validated, the user is inserted (the
\* method opens no atomic block) and, for a Cliente, _crear_cuenta_ahorros
\* starts
RegistroInvalido ==
    \E correo \in CorreosRegistro :
        \E u \in DOMAIN usuarios : usuarios[u].correo_electronico = correo

Registrar(w) ==
    /\ req[w].pc = "idle"
    /\ w = FirstFree
    /\ \/ IF RegistroInvalido THEN Respond(w, 400) /\ UNCHANGED usuarios ELSE FALSE
       \/ /\ Cardinality(DOMAIN usuarios) < MaxUsuarios
          /\ \E correo \in CorreosRegistro, tipo \in TiposUsuario :
               /\ \A u \in DOMAIN usuarios : usuarios[u].correo_electronico # correo
               /\ tipo = "Cliente" => Abiertas < MaxCuentas
               /\ LET id == IdsUsuario[Cardinality(DOMAIN usuarios) + 1]
                  IN  /\ usuarios' = (id :> [tipo |-> tipo, correo_electronico |-> correo]) @@ usuarios
                      /\ IF tipo = "Cliente"
                         THEN /\ req' = [req EXCEPT ![w] =
                                          [ Idle EXCEPT
                                            !.pc = "generar", !.endpoint = "crear_usuario",
                                            !.tipo = "Ahorros", !.cliente = id ]]
                              /\ UNCHANGED respuesta
                         ELSE Respond(w, 201)
    /\ UNCHANGED <<cuentas, transacciones, logs>>

\* CuentaCreateView: permission, the serializer's fields, and
\* CuentaSerializer.create up to the first draw.  create returns the message
\* of the ValidationError it raises before the first draw, or Ninguno.
errores_cuenta(user, correo, tipo) ==
    IF tipo \notin {"Ahorros", "Corriente"} THEN "No es una opcion valida."
    ELSE IF usuarios[user].tipo # "Operador" THEN "Solo operadores pueden crear cuentas."
    ELSE IF Clientes(correo) = {} THEN "No se encontro un cliente con ese correo."
    ELSE Ninguno

CuentaRefused == \E user \in DOMAIN usuarios : ~EsOperador(user)

CuentaInvalid ==
    \E user \in DOMAIN usuarios, correo \in CorreosCuenta, tipo \in TiposCuenta :
        EsOperador(user) /\ errores_cuenta(user, correo, tipo) # Ninguno

CrearCuenta(w) ==
    /\ req[w].pc = "idle"
    /\ w = FirstFree
    /\ \/ IF CuentaRefused THEN Respond(w, 403) ELSE FALSE
       \/ IF CuentaInvalid THEN Respond(w, 400) ELSE FALSE
       \/ /\ Abiertas < MaxCuentas
          /\ \E user \in DOMAIN usuarios, correo \in CorreosCuenta, tipo \in TiposCuenta :
               /\ EsOperador(user)
               /\ errores_cuenta(user, correo, tipo) = Ninguno
               /\ req' = [req EXCEPT ![w] =
                            [ Idle EXCEPT
                              !.pc = "generar", !.endpoint = "crear_cuenta",
                              !.user = user, !.tipo = tipo,
                              !.cliente = CHOOSE u \in Clientes(correo) : TRUE ]]
               /\ UNCHANGED respuesta
    /\ UNCHANGED <<usuarios, cuentas, transacciones, logs>>

\* one draw of the generator and its query
Generar(w) ==
    /\ req[w].pc = "generar"
    /\ \E numero \in Generables :
          LET paso == IF req[w].endpoint = "crear_usuario"
                      THEN _generate_unique_numero_cuenta(numero, req[w].intentos)
                      ELSE generate_unique_numero_cuenta(numero, req[w].intentos)
          IN  IF paso = "raise"
              THEN Respond(w, 400)
              ELSE /\ req' = [req EXCEPT ![w] =
                                [ req[w] EXCEPT
                                  !.pc = IF paso = "return" THEN "insertar_cuenta" ELSE "generar",
                                  !.intentos = IF paso = "return" THEN 0 ELSE @ + 1,
                                  !.numero = IF paso = "return" THEN numero ELSE Ninguno ]]
                   /\ UNCHANGED respuesta
    /\ UNCHANGED <<usuarios, cuentas, transacciones, logs>>

\* variant: the column numero_cuenta has no unique constraint
unique_numero_cuenta_ausente(numero) == FALSE

\* Cuenta.numero_cuenta is unique: the store refuses the insert of a row
\* whose number is the number of a row it holds
unique_numero_cuenta(numero) == \E c \in DOMAIN cuentas : cuentas[c].numero_cuenta = numero

\* Cuenta.objects.create with the number drawn; numero_cuenta is unique, so
\* the insert fails when the number has been taken since the query.  In
\* CuentaSerializer.create the Log row follows and the atomic block commits.
InsertarCuenta(w) ==
    /\ req[w].pc = "insertar_cuenta"
    /\ IF unique_numero_cuenta(req[w].numero)
       THEN Respond(w, 500) /\ UNCHANGED <<cuentas, logs>>
       ELSE /\ cuentas' = ( (Cardinality(DOMAIN cuentas) + 1) :>
                               NuevaCuenta(req[w].numero, req[w].tipo, req[w].cliente) ) @@ cuentas
            /\ logs' = IF req[w].endpoint = "crear_cuenta"
                       THEN Append(logs, _log_creacion(req[w].user, req[w].tipo, req[w].cliente))
                       ELSE logs
            /\ Respond(w, 201)
    /\ UNCHANGED <<usuarios, transacciones>>

AltaStep(w) ==
    \/ Registrar(w)
    \/ CrearCuenta(w)
    \/ Generar(w)
    \/ InsertarCuenta(w)

\* registrations and account creations, served concurrently
AltaNext == \E w \in Workers : AltaStep(w)

AltaSpec == Init /\ [][AltaNext]_vars

(***************************** properties **********************************)
TiposTx == {"Deposito", "Retiro", "Transferencia"}

\* the step is taken by worker w
StepOf(w) == req'[w] # req[w]

\* w's atomic block commits in this step and w answers 201
Commits(w) == req[w].pc = "insertar" /\ req'[w].pc = "idle" /\ respuesta'.status = 201

\* w answers in this step, and not because the store failed
Answers(w) == req[w].pc # "idle" /\ req'[w].pc = "idle" /\ respuesta'.status # 500

UltimaTx == transacciones[Len(transacciones)]

\* C1: in every reachable state, after any interleaving of Deposit,
\* Withdrawal and Transfer requests, every account's balance is >= 0.
Thm_C1 == \A c \in DOMAIN cuentas : cuentas[c].saldo >= 0

\* two debits of 1 from the account that held 1 have both been Completed
\* (which only an interleaving produces), and its balance is 0, not -1
Wit_C1 ==
    /\ Len(transacciones) = 3
    /\ \A i \in 2..3 : /\ transacciones[i].estado = "Completada"
                       /\ transacciones[i].tipo \in {"Retiro", "Transferencia"}
                       /\ transacciones[i].id_cuenta = 1
                       /\ transacciones[i].id_cuenta_destino # 1
    /\ cuentas[1].saldo = 0

\* C2: two concurrent debiting requests on the same source account cannot
\* both pass the balance check against the same stale balance and both end
\* Completed.  Stated on the step that completes a debit: whenever a
\* Withdrawal or Transfer commits as Completada, the committed balance of its
\* source at that moment covers the amount, so of two debits that read a
\* balance covering only one of them the second cannot complete.
Claim_C2 ==
    [][\A w \in Workers :
         ( /\ Commits(w)
           /\ req[w].tipo \in {"Retiro", "Transferencia"}
           /\ req[w].transaccion_data.estado = "Completada" )
         => cuentas[req[w].cuenta_origen.id].saldo >= req[w].cantidad]_vars

\* C3: a Withdrawal by an Operator with matching owner email and
\* amount > balance is accepted by validate, issues no write, leaves every
\* balance unchanged, and is answered 201 with a transaction of status
\* Cancelada.
RetiroInsuficiente(w) ==
    /\ req[w].pc \in InFlight
    /\ req[w].tipo = "Retiro"
    /\ req[w].endpoint = "crear_transaccion"
    /\ req[w].cantidad > cuentas[req[w].cuenta_origen.id].saldo

RetiroValido ==
    \A user \in UserIds, c \in DOMAIN cuentas, cantidad \in Cantidades :
        ( usuarios[user].tipo = "Operador" /\ cantidad > 0 ) =>
            /\ has_permission("crear_transaccion", user)
            /\ validate(user, "Retiro", cantidad, c,
                        usuarios[cuentas[c].id_usuario].correo_electronico) = Ninguno

Thm_C3 ==
    /\ []RetiroValido
    /\ [][\A w \in Workers :
            (RetiroInsuficiente(w) /\ StepOf(w)) =>
               /\ cuentas' = cuentas
               /\ req'[w].wbuf = << >>
               /\ Answers(w) =>
                    /\ respuesta'.status = 201
                    /\ transacciones' = Append(transacciones,
                         [ tipo |-> "Retiro", cantidad |-> req[w].cantidad,
                           id_cuenta |-> req[w].cuenta_origen.id,
                           estado |-> "Cancelada", id_operador |-> req[w].user,
                           id_cuenta_destino |-> NoCuenta ])]_vars

\* a withdrawal larger than the balance has been answered 201, Cancelada
Wit_C3 ==
    /\ Len(transacciones) > 1
    /\ UltimaTx.tipo = "Retiro"
    /\ UltimaTx.estado = "Cancelada"
    /\ UltimaTx.cantidad > cuentas[UltimaTx.id_cuenta].saldo
    /\ respuesta.status = 201
    /\ \A w \in Workers : req[w].pc = "idle"

\* C4: a Withdrawal by an Operator with matching owner email and
\* 0 < amount <= balance (amount = balance included) decreases the balance
\* by exactly amount, changes no other balance and creates a transaction of
\* status Completada; a following Withdrawal above the remaining balance is
\* Cancelada and leaves the balance.
Thm_C4 ==
    [][\A w \in Workers :
         ( /\ Commits(w)
           /\ req[w].tipo = "Retiro"
           /\ req[w].endpoint = "crear_transaccion" ) =>
           LET c == req[w].cuenta_origen.id
               ok == req[w].cantidad <= cuentas[c].saldo
           IN  /\ cuentas' = [cuentas EXCEPT ![c].saldo =
                                 IF ok THEN @ - req[w].cantidad ELSE @]
               /\ transacciones' = Append(transacciones,
                    [ tipo |-> "Retiro", cantidad |-> req[w].cantidad,
                      id_cuenta |-> c,
                      estado |-> IF ok THEN "Completada" ELSE "Cancelada",
                      id_operador |-> req[w].user,
                      id_cuenta_destino |-> NoCuenta ])]_vars

\* the scenario: a withdrawal of the whole balance Completada, then a
\* withdrawal above the remaining balance Cancelada, balance as the first left it
Wit_C4 ==
    /\ Len(transacciones) = 3
    /\ \A i \in 2..3 : transacciones[i].tipo = "Retiro" /\ transacciones[i].id_cuenta = 1
    /\ transacciones[2].estado = "Completada"
    /\ transacciones[3].estado = "Cancelada"
    /\ cuentas[1].saldo = CuentasIniciales[1].saldo - transacciones[2].cantidad
    /\ cuentas[1].saldo = 0

\* C5: a Transfer with an existing destination and amount <= source balance
\* is atomic: every step of the request either leaves both balances as they
\* were or debits the source by amount and credits the destination by amount.
Delta(w, c) ==
    (IF c = req[w].cuenta_origen.id THEN 0 - req[w].cantidad ELSE 0)
  + (IF c = req[w].cuenta_destino.id THEN req[w].cantidad ELSE 0)

Claim_C5 ==
    [][\A w \in Workers :
         ( /\ StepOf(w)
           /\ req[w].pc \in InCreate
           /\ req[w].tipo = "Transferencia"
           /\ req[w].transaccion_data.estado = "Completada" ) =>
           \/ cuentas' = cuentas
           \/ cuentas' = [c \in DOMAIN cuentas |->
                            [cuentas[c] EXCEPT !.saldo = @ + Delta(w, c)]]]_vars

\* C6: a Transfer whose destination number matches no account (a missing
\* number included) issues no write, leaves every balance unchanged and is
\* answered 201 with a transaction of status Cancelada and no destination.
SinDestino(w) ==
    /\ req[w].pc \in InFlight
    /\ req[w].tipo = "Transferencia"
    /\ CuentasConNumero(req[w].numero_cuenta_destino) = {}

Thm_C6 ==
    [][\A w \in Workers :
         (SinDestino(w) /\ StepOf(w)) =>
            /\ cuentas' = cuentas
            /\ req'[w].wbuf = << >>
            /\ Answers(w) =>
                 /\ respuesta'.status = 201
                 /\ transacciones' = Append(transacciones,
                      [ tipo |-> "Transferencia", cantidad |-> req[w].cantidad,
                        id_cuenta |-> req[w].cuenta_origen.id,
                        estado |-> "Cancelada", id_operador |-> NoUser,
                        id_cuenta_destino |-> NoCuenta ])]_vars

\* a transfer the source could pay, to a number that is missing or unknown,
\* is about to be recorded as Cancelada
Wit_C6 ==
    \E w \in Workers :
        /\ req[w].pc = "insertar"
        /\ req[w].tipo = "Transferencia"
        /\ req[w].numero_cuenta_destino \in {Ninguno, "n9"}
        /\ req[w].cantidad <= req[w].cuenta_origen.saldo
        /\ req[w].transaccion_data.estado = "Cancelada"

\* C7: a Transfer by the owning Customer to an existing destination with
\* amount > source balance issues no write, changes neither balance and
\* creates a transaction of status Cancelada.
TransferenciaInsuficiente(w) ==
    /\ req[w].pc \in InFlight
    /\ req[w].tipo = "Transferencia"
    /\ CuentasConNumero(req[w].numero_cuenta_destino) # {}
    /\ req[w].cantidad > cuentas[req[w].cuenta_origen.id].saldo

Thm_C7 ==
    [][\A w \in Workers :
         (TransferenciaInsuficiente(w) /\ StepOf(w)) =>
            /\ cuentas' = cuentas
            /\ req'[w].wbuf = << >>
            /\ req'[w].pc # "idle" => req'[w].transaccion_data.estado = "Cancelada"
            /\ Answers(w) =>
                 /\ Len(transacciones') = Len(transacciones) + 1
                 /\ transacciones'[Len(transacciones')].estado = "Cancelada"
                 /\ transacciones'[Len(transacciones')].tipo = "Transferencia"]_vars

\* a transfer above the source balance to the other customer's account is
\* about to be recorded as Cancelada
Wit_C7 ==
    \E w \in Workers :
        /\ req[w].pc = "insertar"
        /\ req[w].tipo = "Transferencia"
        /\ req[w].cuenta_destino.id \in DOMAIN cuentas
        /\ req[w].cuenta_destino.id # req[w].cuenta_origen.id
        /\ req[w].cantidad > cuentas[req[w].cuenta_origen.id].saldo
        /\ req[w].transaccion_data.estado = "Cancelada"

\* C8: a Deposit by an Operator with amount > 0 and matching owner email
\* increases the target balance by exactly amount, changes no other balance,
\* and creates a transaction of status Completada with the calling operator
\* as initiator.
Thm_C8 ==
    [][\A w \in Workers :
         ( /\ req[w].tipo = "Deposito"
           /\ req[w].pc \in InCreate
           /\ StepOf(w)
           /\ Answers(w) ) =>
           LET c == req[w].cuenta_origen.id
           IN  /\ usuarios[req[w].user].tipo = "Operador"
               /\ respuesta'.status = 201
               /\ cuentas' = [cuentas EXCEPT ![c].saldo = @ + req[w].cantidad]
               /\ transacciones' = Append(transacciones,
                    [ tipo |-> "Deposito", cantidad |-> req[w].cantidad,
                      id_cuenta |-> c, estado |-> "Completada",
                      id_operador |-> req[w].user,
                      id_cuenta_destino |-> NoCuenta ])]_vars

\* a deposit has been recorded and the account holds the amount more
Wit_C8 ==
    /\ Len(transacciones) = 2
    /\ UltimaTx.tipo = "Deposito"
    /\ UltimaTx.id_operador = "op"
    /\ cuentas[UltimaTx.id_cuenta].saldo =
           CuentasIniciales[UltimaTx.id_cuenta].saldo + UltimaTx.cantidad
    /\ respuesta.status = 201

\* C9: a request rejected with a ValidationError (or refused by the
\* permission check) leaves the store unchanged, and every request that has
\* reached create, where the store is written, carries none of the mistakes
\* that are rejected: its amount is positive, its kind is known, its source
\* account exists, a Deposit or Withdrawal comes from an Operator with the
\* owner's email, a Transfer from the Customer who owns the source.
Rechazo ==
    /\ respuesta'.status \in {400, 403}
    /\ \/ respuesta' # respuesta
       \/ \E w \in Workers : req[w].pc # "idle" /\ req'[w].pc = "idle"

SinErrores(r) ==
    /\ r.cantidad > 0
    /\ r.tipo \in TiposTx
    /\ r.cuenta_origen.id \in DOMAIN cuentas
    /\ r.tipo \in {"Deposito", "Retiro"} =>
          /\ usuarios[r.user].tipo = "Operador"
          /\ r.correo_cliente # Ninguno
          /\ r.correo_cliente =
                usuarios[cuentas[r.cuenta_origen.id].id_usuario].correo_electronico
    /\ r.tipo = "Transferencia" =>
          /\ usuarios[r.user].tipo = "Cliente"
          /\ cuentas[r.cuenta_origen.id].id_usuario = r.user

Thm_C9 ==
    /\ [][Rechazo => UNCHANGED <<cuentas, transacciones, logs>>]_vars
    /\ [](\A w \in Workers : req[w].pc \in InCreate => SinErrores(req[w]))

\* a request has been rejected while another holds uncommitted writes and
\* the store has a transaction
Wit_C9 ==
    /\ respuesta.status = 400
    /\ Len(transacciones) = 2
    /\ \E w \in Workers : req[w].wbuf # << >>

\* C10: every accepted request creates exactly one transaction and one
\* audit entry in the same atomic unit: in every reachable state the
\* Deposit/Withdrawal/Transfer audit entries are as many as the transactions,
\* and the i-th entry has the actor, kind, amount, account number and status
\* of the i-th transaction.
EsLogTx(l) == l.accion \in TiposTx
LogsTx == SelectSeq(logs, EsLogTx)

Actor(t) ==
    IF t.tipo = "Transferencia" THEN cuentas[t.id_cuenta].id_usuario ELSE t.id_operador

Thm_C10 ==
    /\ [](/\ Len(LogsTx) = Len(transacciones)
          /\ \A i \in 1..Len(transacciones) :
               /\ LogsTx[i].accion = transacciones[i].tipo
               /\ LogsTx[i].cantidad = transacciones[i].cantidad
               /\ LogsTx[i].estado = transacciones[i].estado
               /\ LogsTx[i].numero_cuenta = cuentas[transacciones[i].id_cuenta].numero_cuenta
               /\ LogsTx[i].id_usuario = Actor(transacciones[i]))
    /\ [][\A w \in Workers :
            (StepOf(w) /\ req[w].pc \in InFlight /\ respuesta'.status = 201 /\ req'[w].pc = "idle")
               => Len(transacciones') = Len(transacciones) + 1]_vars

\* a Completada and a Cancelada transaction, each with its audit entry
Wit_C10 ==
    /\ Len(transacciones) = 3
    /\ Len(logs) = 3
    /\ transacciones[2].estado = "Cancelada"
    /\ transacciones[3].estado = "Completada"
    /\ transacciones[3].tipo = "Transferencia"

\* C11: CancelPending on a transaction that is not Pending is rejected with
\* an error and has no effect.  A cancel call that has read a transaction
\* whose state is Completada or Cancelada answers 400 in its next step, and
\* that step leaves every transaction, every balance and the audit log as
\* they were.
Thm_C11 ==
    [][\A w \in Workers :
         ( /\ req[w].pc = "cancel_get"
           /\ req[w].transaccion.estado # "Pendiente"
           /\ StepOf(w) ) =>
             /\ req'[w].pc = "idle"
             /\ respuesta'.status = 400
             /\ UNCHANGED <<cuentas, transacciones, logs>>]_vars

\* a cancel call has read the transaction an earlier call cancelled
Wit_C11 ==
    \E w \in Workers :
        /\ req[w].pc = "cancel_get"
        /\ req[w].pk = 2
        /\ req[w].transaccion.estado = "Cancelada"
        /\ Len(logs) = 2

Thm_C13 ==
    [][/\ Len(transacciones') >= Len(transacciones)
       /\ \A i \in DOMAIN transacciones :
            transacciones'[i].estado # transacciones[i].estado =>
               /\ transacciones[i].estado = "Pendiente"
               /\ transacciones'[i].estado = "Cancelada"]_vars

\* the cancelled transaction has been rewritten by the fields of a cancel
\* call's body and a later request has been recorded; its state stayed
Wit_C13 ==
    /\ Len(transacciones) = 3
    /\ transacciones[2].estado = "Cancelada"
    /\ transacciones[2].tipo = "Deposito"
    /\ transacciones[3].estado = "Completada"

\* C14: no Deposit, Withdrawal or Transfer request persists a transaction
\* in state Pendiente: every transaction in every reachable state is
\* Completada or Cancelada, although validate gives a transfer the state
\* Pendiente.
Thm_C14 ==
    \A i \in DOMAIN transacciones : transacciones[i].estado \in {"Completada", "Cancelada"}

\* a transfer is recorded as Completada while another one, which validate
\* has marked Pendiente, is about to enter create
Wit_C14 ==
    /\ \E i \in DOMAIN transacciones :
          transacciones[i].tipo = "Transferencia" /\ transacciones[i].estado = "Completada"
    /\ \E w \in Workers : req[w].pc = "validated" /\ req[w].estado = "Pendiente"

\* C15: Deposit and Withdrawal are executed only for an Operator who gives
\* the email of the owner of the account: every recorded Deposit or
\* Withdrawal has an Operador as id_operador, and every request that commits
\* one comes from an Operador with the owner's email, never from a Cliente.
Thm_C15 ==
    /\ [](\A i \in DOMAIN transacciones :
            transacciones[i].tipo \in {"Deposito", "Retiro"} =>
               /\ transacciones[i].id_operador \in DOMAIN usuarios
               /\ usuarios[transacciones[i].id_operador].tipo = "Operador")
    /\ [][\A w \in Workers :
            (Commits(w) /\ req[w].tipo \in {"Deposito", "Retiro"}) =>
               /\ usuarios[req[w].user].tipo = "Operador"
               /\ req[w].correo_cliente =
                     usuarios[cuentas[req[w].cuenta_origen.id].id_usuario].correo_electronico]_vars

\* the operator has withdrawn from one account and deposited into the other
Wit_C15 ==
    /\ Len(transacciones) = 3
    /\ \E i, j \in 2 .. 3 :
          /\ transacciones[i].tipo = "Retiro" /\ transacciones[i].id_cuenta = 1
          /\ transacciones[j].tipo = "Deposito" /\ transacciones[j].id_cuenta = 2
          /\ transacciones[i].id_operador = "op" /\ transacciones[j].id_operador = "op"

\* C16: a Transfer is executed only for the Cliente who owns the source
\* account: every request that is in create for a Transfer, and every one
\* that commits it, comes from a Cliente who is the owner of the account the
\* transfer debits (the source it records), never from an Operador.
Thm_C16 ==
    /\ [](\A w \in Workers :
            (req[w].pc \in InCreate /\ req[w].tipo = "Transferencia") =>
               /\ usuarios[req[w].user].tipo = "Cliente"
               /\ cuentas[req[w].cuenta_origen.id].id_usuario = req[w].user)
    /\ [][\A w \in Workers :
            (Commits(w) /\ req[w].tipo = "Transferencia") =>
               /\ usuarios[req[w].user].tipo = "Cliente"
               /\ cuentas[req[w].cuenta_origen.id].id_usuario = req[w].user
               /\ req[w].transaccion_data.id_cuenta = req[w].cuenta_origen.id]_vars

\* the owner of the first account has moved its balance to the second
Wit_C16 ==
    /\ \E i \in DOMAIN transacciones :
          /\ transacciones[i].tipo = "Transferencia"
          /\ transacciones[i].estado = "Completada"
          /\ transacciones[i].id_cuenta = 1
          /\ transacciones[i].id_cuenta_destino = 2
    /\ cuentas[1].saldo = 0
    /\ cuentas[2].saldo = 1

\* C17: neither generator returns a number that is the number of an account
\* in the store at the time of its query: whenever a registration or an
\* account creation leaves its generator with a number, no account in the
\* store has that number.
Thm_C17 ==
    [][\A w \in Workers :
         (req[w].pc = "generar" /\ req'[w].pc = "insertar_cuenta") =>
            ~existe(req'[w].numero)]_vars

\* both generators have returned a number while the store holds two accounts
Wit_C17 ==
    /\ Cardinality(DOMAIN cuentas) = 2
    /\ \E w, v \in Workers :
          /\ req[w].pc = "insertar_cuenta" /\ req[w].endpoint = "crear_usuario"
          /\ req[v].pc = "insertar_cuenta" /\ req[v].endpoint = "crear_cuenta"

\* C18: the generator ends within 10 draws.  A generator that is running has
\* made fewer than 10 draws; a candidate that is absent from the store is
\* returned at once, whatever the number of earlier draws, and a draw that
\* does not return has collided with an account; after a collision the
\* loop goes on if fewer than 10 draws were made, and otherwise the request
\* fails with an error and no account is inserted.
Thm_C18 ==
    /\ [](\A w \in Workers : req[w].pc = "generar" => req[w].intentos < MaxIntentos)
    /\ [](\A numero \in Generables, intentos \in 0 .. MaxIntentos - 1 :
            ~existe(numero) =>
               /\ _generate_unique_numero_cuenta(numero, intentos) = "return"
               /\ generate_unique_numero_cuenta(numero, intentos) = "return")
    /\ [][\A w \in Workers :
            (req[w].pc = "generar" /\ StepOf(w)) =>
               \/ /\ req'[w].pc = "insertar_cuenta"
                  /\ ~existe(req'[w].numero)
               \/ /\ req'[w].pc = "generar"
                  /\ \E numero \in Generables : existe(numero)
                  /\ req'[w].intentos = req[w].intentos + 1
                  /\ req'[w].intentos < MaxIntentos
               \/ /\ req'[w].pc = "idle"
                  /\ req[w].intentos = MaxIntentos - 1
                  /\ respuesta'.status = 400
                  /\ UNCHANGED <<cuentas, logs>>]_vars

\* both generators have made nine colliding draws
Wit_C18 ==
    \E w, v \in Workers :
        /\ req[w].pc = "generar" /\ req[w].endpoint = "crear_usuario"
        /\ req[w].intentos = MaxIntentos - 1
        /\ req[v].pc = "generar" /\ req[v].endpoint = "crear_cuenta"
        /\ req[v].intentos = MaxIntentos - 1

\* the step of worker w that ends an account creation by an operator
TerminaCreacion(w) ==
    /\ req[w].endpoint = "crear_cuenta"
    /\ req[w].pc \in Abriendo
    /\ req'[w].pc = "idle"

\* the step inserts one account of the requested kind for the customer, with
\* saldo 0 and estado Activa, and appends the operator's audit entry
Creada(w) ==
    /\ \E numero \in Generables :
          cuentas' = ( (Cardinality(DOMAIN cuentas) + 1) :>
                         [ numero_cuenta |-> numero, tipo |-> req[w].tipo, saldo |-> 0,
                           estado |-> "Activa", id_usuario |-> req[w].cliente ] ) @@ cuentas
    /\ logs' = Append(logs, [ id_usuario |-> req[w].user, accion |-> "Creacion de cuenta",
                              tipo |-> req[w].tipo, cliente |-> req[w].cliente ])
    /\ respuesta'.status = 201

\* only a call by an Operador for the email of a Cliente gets past the checks
\* of create, and a call answered at once is rejected and creates nothing
SoloOperadorParaCliente ==
    /\ [](\A w \in Workers :
            (req[w].endpoint = "crear_cuenta" /\ req[w].pc \in Abriendo) =>
               /\ usuarios[req[w].user].tipo = "Operador"
               /\ usuarios[req[w].cliente].tipo = "Cliente"
               /\ req[w].tipo \in {"Ahorros", "Corriente"})
    /\ [][((\A w \in Workers : req[w].pc = "idle" /\ req'[w].pc = "idle")
           /\ usuarios' = usuarios) =>
             /\ respuesta'.status \in {400, 403}
             /\ UNCHANGED <<cuentas, logs>>]_vars

\* C20 as stated: an account creation by an Operator for the email of an
\* existing Customer creates exactly one account of the requested kind with
\* balance 0 and status Active owned by that customer and appends one audit
\* entry; for an email of no Customer, or a caller who is no Operator, it is
\* rejected and creates no account and no audit entry.
Claim_C20 ==
    /\ SoloOperadorParaCliente
    /\ [][\A w \in Workers : TerminaCreacion(w) => Creada(w)]_vars

\* C20 as amended: the same, except that the call is rejected, with no
\* account and no audit entry, when the generator has made 10 colliding
\* draws (400) or the number it returned has been taken before the insert
\* (500).
Thm_C20 ==
    /\ SoloOperadorParaCliente
    /\ [][\A w \in Workers :
            TerminaCreacion(w) =>
               \/ Creada(w)
               \/ /\ req[w].pc = "generar"
                  /\ req[w].intentos = MaxIntentos - 1
                  /\ respuesta'.status = 400
                  /\ UNCHANGED <<cuentas, logs>>
               \/ /\ req[w].pc = "insertar_cuenta"
                  /\ existe(req[w].numero)
                  /\ respuesta'.status = 500
                  /\ UNCHANGED <<cuentas, logs>>]_vars

\* the operator has opened a Corriente account for the first customer
Wit_C20 ==
    /\ Cardinality(DOMAIN cuentas) = 3
    /\ cuentas[3].tipo = "Corriente"
    /\ cuentas[3].id_usuario = "cli1"
    /\ cuentas[3].saldo = 0
    /\ cuentas[3].estado = "Activa"
    /\ Len(logs) = 2
    /\ logs[2].accion = "Creacion de cuenta"
    /\ logs[2].id_usuario = "op"
    /\ respuesta.status = 201

\* worker w is about to save a row that worker v has written in its open
\* atomic block, and waits for v to commit or roll back
Espera(w, v) ==
    \/ req[w].pc = "save_origen" /\ req[w].cuenta_origen.id \in DOMAIN req[v].wbuf
    \/ req[w].pc = "save_destino" /\ req[w].cuenta_destino.id \in DOMAIN req[v].wbuf

\* C19: two Transfers that cross between the same two accounts take the
\* write locks of the two accounts in the same order, so in no reachable
\* state does each of them hold the lock of one account while it waits for
\* the lock of the other.
Claim_C19 ==
    ~ \E w, v \in Workers :
          /\ w # v
          /\ req[w].tipo = "Transferencia" /\ req[v].tipo = "Transferencia"
          /\ Espera(w, v) /\ Espera(v, w)

\* the positions of a cancel call after get_object()
Cancelando == {"cancel_get", "cancel_log", "cancel_update"}

Efecto(t, c) ==
    IF t.estado # "Completada" THEN 0
    ELSE (IF t.tipo = "Deposito" /\ t.id_cuenta = c THEN t.cantidad ELSE 0)
       + (IF t.tipo = "Transferencia" /\ t.id_cuenta_destino = c THEN t.cantidad ELSE 0)
       - (IF t.tipo = "Retiro" /\ t.id_cuenta = c THEN t.cantidad ELSE 0)
       - (IF t.tipo = "Transferencia" /\ t.id_cuenta = c THEN t.cantidad ELSE 0)

\* the sum of what the stored transactions move on account c
Movimientos(c) ==
    LET suma[n \in 0 .. Len(transacciones)] ==
            IF n = 0 THEN 0 ELSE suma[n - 1] + Efecto(transacciones[n], c)
    IN  suma[Len(transacciones)]

\* a stored transfer whose destination is its own source
HayAutoTransferencia ==
    \E i \in DOMAIN transacciones :
        /\ transacciones[i].tipo = "Transferencia"
        /\ transacciones[i].id_cuenta_destino = transacciones[i].id_cuenta

\* C22: no balance update is lost: in every reachable state the balance of
\* every account is the balance it was opened with (0) plus the amounts of
\* the Completada deposits and incoming transfers minus the amounts of the
\* Completada withdrawals and outgoing transfers on it.  Stated for the
\* stores that hold no transfer of an account to itself, so that the only
\* way to fail is a request that overwrites the update of another.
Claim_C22 ==
    ~HayAutoTransferencia => \A c \in DOMAIN cuentas : cuentas[c].saldo = Movimientos(c)

\* the sum of all account balances of a store
Total(cs) ==
    LET ids == DOMAIN cs
        suma[n \in 0 .. Cardinality(ids)] ==
            IF n = 0 THEN 0 ELSE suma[n - 1] + cs[n].saldo
    IN  suma[Cardinality(ids)]

\* C23: a Transfer never creates or destroys money: the step that records a
\* Transfer, Completada or Cancelada, for any source and any existing
\* destination number, the source's own number included, leaves the sum of
\* all account balances as it was.  Requests are served one at a time.
Claim_C23 ==
    [][\A w \in Workers :
         (Commits(w) /\ req[w].tipo = "Transferencia") => Total(cuentas') = Total(cuentas)]_vars

\* user u owns an account of the store
TieneCuenta(u) == \E c \in DOMAIN cuentas : cuentas[c].id_usuario = u

\* the registration of user u is still being served
Registrando(u) ==
    \E w \in Workers :
        req[w].endpoint = "crear_usuario" /\ req[w].pc \in Abriendo /\ req[w].cliente = u

\* C24: every persisted user of kind Cliente owns at least one account, once
\* the registration that created the user has been answered; a registration
\* of a Cliente that ends persists the user together with one Activa Ahorros
\* account of saldo 0 or, when it fails, persists neither; the registration
\* of an Operador creates no account.
Claim_C24 ==
    /\ [](\A u \in DOMAIN usuarios :
            usuarios[u].tipo = "Cliente" => TieneCuenta(u) \/ Registrando(u))
    /\ [][\A w \in Workers :
            (req[w].endpoint = "crear_usuario" /\ req[w].pc \in Abriendo /\ req'[w].pc = "idle") =>
               \/ /\ respuesta'.status = 201
                  /\ \E numero \in Generables :
                        cuentas' = ( (Cardinality(DOMAIN cuentas) + 1) :>
                                       [ numero_cuenta |-> numero, tipo |-> "Ahorros", saldo |-> 0,
                                         estado |-> "Activa", id_usuario |-> req[w].cliente ] ) @@ cuentas
               \/ /\ respuesta'.status # 201
                  /\ cuentas' = cuentas
                  /\ req[w].cliente \notin DOMAIN usuarios']_vars
       /\ [][(\E u \in DOMAIN usuarios' \ DOMAIN usuarios : usuarios'[u].tipo = "Operador")
                => cuentas' = cuentas]_vars

\* C25: in every reachable state no two accounts share a number, and no
\* step removes an account or changes its number; a creation whose number
\* has been taken since its generator's query, as when two creations drew
\* the same candidate before either inserted, is refused and inserts nothing.
Thm_C25 ==
    /\ [](\A c, d \in DOMAIN cuentas :
            c # d => cuentas[c].numero_cuenta # cuentas[d].numero_cuenta)
    /\ [][/\ \A c \in DOMAIN cuentas :
               /\ c \in DOMAIN cuentas'
               /\ cuentas'[c].numero_cuenta = cuentas[c].numero_cuenta
          /\ \A w \in Workers :
               (req[w].pc = "insertar_cuenta" /\ existe(req[w].numero) /\ StepOf(w)) =>
                  /\ cuentas' = cuentas
                  /\ respuesta'.status = 500]_vars

\* two creations hold the same candidate, which neither has inserted
Wit_C25 ==
    \E w, v \in Workers :
        /\ w # v
        /\ req[w].pc = "insertar_cuenta" /\ req[v].pc = "insertar_cuenta"
        /\ req[w].numero = req[v].numero
        /\ ~existe(req[w].numero)

\* a row has a destination exactly when it is a completed transfer, and an
\* operator only when it is a deposit or a withdrawal
ConDestinoSiCompletada(t) ==
    /\ t.id_cuenta_destino # NoCuenta <=> (t.tipo = "Transferencia" /\ t.estado = "Completada")
    /\ t.id_operador # NoUser => t.tipo \in {"Deposito", "Retiro"}

\* C26: in every reachable state a transaction has a destination account
\* recorded if and only if it is a Transferencia in state Completada, so
\* deposits, withdrawals and cancelled transfers (those cancelled for
\* insufficient funds with an existing destination included) carry none;
\* and a transaction that carries an initiating operator is a Deposito or a
\* Retiro.  The same holds of the row a request is about to insert.
Thm_C26 ==
    /\ \A i \in DOMAIN transacciones : ConDestinoSiCompletada(transacciones[i])
    /\ \A w \in Workers : req[w].pc = "insertar" => ConDestinoSiCompletada(req[w].transaccion_data)

\* the store holds a deposit with its operator and a completed transfer with
\* its destination, and a transfer to an existing account, cancelled for
\* insufficient funds, is about to be inserted with no destination
Wit_C26 ==
    /\ Len(transacciones) = 2
    /\ transacciones[1].id_operador = "op"
    /\ transacciones[2].tipo = "Transferencia"
    /\ transacciones[2].estado = "Completada"
    /\ transacciones[2].id_cuenta_destino = 2
    /\ \E w \in Workers :
          /\ req[w].pc = "insertar"
          /\ req[w].tipo = "Transferencia"
          /\ req[w].cuenta_destino.id \in DOMAIN cuentas
          /\ req[w].cantidad > req[w].cuenta_origen.saldo
          /\ req[w].transaccion_data.estado = "Cancelada"
          /\ req[w].transaccion_data.id_cuenta_destino = NoCuenta

====
